---- MODULE Spec2Model ----
(***************************************************************************)
(* Book catalogue backend (src/backend/main.py): the in-memory Catalog     *)
(* books_db, the Conflict Stage pending_conflicts, the persisted file, and *)
(* the handlers upload_csv, confirm_updates, update_book and delete_book.  *)
(*                                                                         *)
(* Text is a tuple of one-character strings, so that strip(), lower(),     *)
(* int(), float() and str() are computed and not assumed.  A float is kept *)
(* in tenths (45 is 4.5).  A Python dict is a sequence of entries in       *)
(* insertion order.                                                        *)
(***************************************************************************)
EXTENDS Integers, Sequences, FiniteSets, TLC

VARIABLES books_db, pending_conflicts, disk, resp, issued, run

vars == <<books_db, pending_conflicts, disk, resp, issued, run>>

(* ----------------------------- bounds ---------------------------------- *)
\* most records the Catalog holds
MaxBooks == 2
\* most rows of one uploaded batch
MaxRows == 2
\* most keys of one confirm request
MaxKeys == 2
\* largest id the Catalog hands out
MaxId == 3

(* ------------------------------ text ----------------------------------- *)
Digit == <<"0", "1", "2", "3", "4", "5", "6", "7", "8", "9">>

IsDigit(c) == \E d \in 1..10 : Digit[d] = c

DigitVal(c) == (CHOOSE d \in 1..10 : Digit[d] = c) - 1

\* str.lower() on one character of the model's alphabet
LowerChar(c) ==
  CASE c = "A" -> "a"
    [] c = "B" -> "b"
    [] c = "C" -> "c"
    [] c = "X" -> "x"
    [] OTHER -> c

Lower(t) == [i \in 1..Len(t) |-> LowerChar(t[i])]

RECURSIVE LStrip(_)
LStrip(t) == IF t # <<>> /\ Head(t) = " " THEN LStrip(Tail(t)) ELSE t

RECURSIVE RStrip(_)
RStrip(t) ==
  IF t # <<>> /\ t[Len(t)] = " " THEN RStrip(SubSeq(t, 1, Len(t) - 1)) ELSE t

\* str.strip()
Strip(t) == RStrip(LStrip(t))

\* normalize(): strip whitespace, lowercase
normalize(value) == Lower(Strip(value))

AllDigits(t) == t # <<>> /\ \A i \in 1..Len(t) : IsDigit(t[i])

RECURSIVE DigitsVal(_)
DigitsVal(t) ==
  IF t = <<>> THEN 0 ELSE 10 * DigitsVal(SubSeq(t, 1, Len(t) - 1)) + DigitVal(t[Len(t)])

\* int(text): ok is FALSE where Python raises ValueError
ParseInt(t) ==
  LET s == Strip(t)
  IN  IF AllDigits(s) THEN [ok |-> TRUE, val |-> DigitsVal(s)]
      ELSE [ok |-> FALSE, val |-> 0]

\* float(text), in tenths: digits, or digits "." one digit
ParseFloat(t) ==
  LET s == Strip(t)
      n == Len(s)
  IN  IF AllDigits(s) THEN [ok |-> TRUE, val |-> 10 * DigitsVal(s)]
      ELSE IF n >= 3 /\ s[n - 1] = "." /\ IsDigit(s[n]) /\ AllDigits(SubSeq(s, 1, n - 2))
        THEN [ok |-> TRUE, val |-> 10 * DigitsVal(SubSeq(s, 1, n - 2)) + DigitVal(s[n])]
      ELSE [ok |-> FALSE, val |-> 0]

RECURSIVE StrInt(_)
\* str(n) of a non-negative int
StrInt(n) == IF n < 10 THEN <<Digit[n + 1]>> ELSE StrInt(n \div 10) \o <<Digit[(n % 10) + 1]>>

\* str(x) of a non-negative float held in tenths
StrFloat(x) == StrInt(x \div 10) \o <<".">> \o StrInt(x % 10)

(* --------------------------- configuration ----------------------------- *)
CSV_COLUMNS ==
  <<"book_title", "book_author", "sri_Rating", "goodreads_avg_rating",
    "goodreads_rating_count", "page_count", "Genre_Intent", "Pace",
    "Plot_Character", "Mood_Finish">>

DB_COLUMNS ==
  <<"book_ID">> \o CSV_COLUMNS \o <<"goodreads_title", "cover_search_title", "cover_image_url">>

\* the columns parse_book_row converts with float()
FLOAT_FIELDS == {"sri_Rating", "goodreads_avg_rating"}

\* the columns parse_book_row converts with int()
INT_FIELDS == {"goodreads_rating_count", "page_count"}

Range(s) == {s[i] : i \in 1..Len(s)}

\* F(v), with v evaluated once and then named (a local variable of the code)
Bind(v, F(_)) == CHOOSE r \in {F(x) : x \in {v}} : TRUE

\* str(value) of a stored field: floats and ints are formatted, text is itself
Str(col, v) ==
  IF col \in FLOAT_FIELDS THEN StrFloat(v)
  ELSE IF col \in INT_FIELDS THEN StrInt(v)
  ELSE v

(* ------------------- dicts, in insertion order ------------------------- *)
Keys(d) == {d[i].key : i \in 1..Len(d)}

Has(d, k) == k \in Keys(d)

IndexOf(d, k) == CHOOSE i \in 1..Len(d) : d[i].key = k

\* d[k]
At(d, k) == d[IndexOf(d, k)].val

\* d[k] = v: an existing key keeps its position, a new key goes last
Put(d, k, v) ==
  IF Has(d, k) THEN [d EXCEPT ![IndexOf(d, k)] = [key |-> k, val |-> v]]
  ELSE Append(d, [key |-> k, val |-> v])

\* del d[k]
Del(d, k) == SelectSeq(d, LAMBDA e : e.key # k)

\* list(d.values())
Values(d) == [i \in 1..Len(d) |-> d[i].val]

(* ------------------------------ helpers -------------------------------- *)
\* row.get(col, ""): a raw row is a function from the header's columns to text
RowGet(row, col) == IF col \in DOMAIN row THEN row[col] ELSE <<>>

\* float(text) if text else 0.0, 0.0 on ValueError
FloatOrZero(t) == IF t # <<>> /\ ParseFloat(t).ok THEN ParseFloat(t).val ELSE 0

\* int(text) if text else 0, 0 on ValueError
IntOrZero(t) == IF t # <<>> /\ ParseInt(t).ok THEN ParseInt(t).val ELSE 0

\* a or b on strings
OrElse(a, b) == IF a # <<>> THEN a ELSE b

parse_book_row(row) ==
  LET title == Strip(RowGet(row, "book_title"))
  IN  [book_ID |-> IF "book_ID" \in DOMAIN row /\ Strip(row["book_ID"]) # <<>>
                     THEN Strip(row["book_ID"]) ELSE <<>>,
       book_title |-> title,
       book_author |-> Strip(RowGet(row, "book_author")),
       sri_Rating |-> FloatOrZero(Strip(RowGet(row, "sri_Rating"))),
       goodreads_avg_rating |-> FloatOrZero(Strip(RowGet(row, "goodreads_avg_rating"))),
       goodreads_rating_count |-> IntOrZero(Strip(RowGet(row, "goodreads_rating_count"))),
       page_count |-> IntOrZero(Strip(RowGet(row, "page_count"))),
       Genre_Intent |-> Strip(RowGet(row, "Genre_Intent")),
       Pace |-> Strip(RowGet(row, "Pace")),
       Plot_Character |-> Strip(RowGet(row, "Plot_Character")),
       Mood_Finish |-> Strip(RowGet(row, "Mood_Finish")),
       goodreads_title |-> OrElse(Strip(RowGet(row, "goodreads_title")), title),
       cover_search_title |-> OrElse(Strip(RowGet(row, "cover_search_title")), title),
       cover_image_url |-> <<>>]

\* the columns on which str(old[col]) != str(new[col])
DiffCols(old, new) ==
  {c \in Range(DB_COLUMNS) : Str(c, old[c]) # Str(c, new[c])}

books_are_equal(old, new) ==
  \A i \in 1..Len(DB_COLUMNS) :
    Str(DB_COLUMNS[i], old[DB_COLUMNS[i]]) = Str(DB_COLUMNS[i], new[DB_COLUMNS[i]])

\* { col: {"old": ..., "new": ...} } for the columns that differ
diff_fields(old, new) ==
  [c \in DiffCols(old, new) |-> [old |-> Str(c, old[c]), new |-> Str(c, new[c])]]

\* the numeric ids among the stored records (int(book_ID) that does not raise)
NumericIds(db) ==
  {ParseInt(db[i].val.book_ID).val : i \in {j \in 1..Len(db) : ParseInt(db[j].val.book_ID).ok}}

SetMax(S) == CHOOSE m \in S : \A x \in S : x <= m

\* the id taken from the number of records, not from the largest id
NextIdByCount(db) == StrInt(Len(db) + 1)

_next_book_id(db) ==
  LET ids == NumericIds(db) \cup {0}
  IN  StrInt(SetMax(ids) + 1)

\* lowercased, stripped title + "|" + author
TitleAuthor(book) ==
  Lower(Strip(book.book_title)) \o <<"|">> \o Lower(Strip(book.book_author))

_book_key(book) ==
  LET bid == Strip(book.book_ID)
  IN  IF bid # <<>> THEN bid ELSE TitleAuthor(book)

(* ------------------- references held by the stage ---------------------- *)
\* A staged conflict is [old, new, at].  In the code "old" is the very dict
\* object stored in books_db; at = {k} says that object is now books_db[k],
\* at = {} that it has left the Catalog.  An in-place change of books_db[k]
\* is therefore a change of every staged old with at = {k}.
Mutated(pc, k, book) ==
  [i \in 1..Len(pc) |->
     IF pc[i].val.at = {k} THEN [pc[i] EXCEPT !.val.old = book] ELSE pc[i]]

\* books_db[k] is rebound or deleted: the object that was there leaves
Unbound(pc, k) ==
  [i \in 1..Len(pc) |->
     IF pc[i].val.at = {k} THEN [pc[i] EXCEPT !.val.at = {}] ELSE pc[i]]

\* the object at books_db[k] is moved to books_db[k2]
Moved(pc, k, k2) ==
  [i \in 1..Len(pc) |->
     IF pc[i].val.at = {k} THEN [pc[i] EXCEPT !.val.at = {k2}] ELSE pc[i]]

(* ------------------------------ upload --------------------------------- *)
\* the title|author fallback compared without lowercasing
FindMatchExactCase(db, new_book) ==
  LET Exact(b) == Strip(b.book_title) \o <<"|">> \o Strip(b.book_author)
  IN  IF new_book.book_ID # <<>> /\ Has(db, new_book.book_ID)
        THEN [found |-> TRUE, key |-> new_book.book_ID]
      ELSE LET hits == {i \in 1..Len(db) : Exact(db[i].val) = Exact(new_book)}
           IN  IF hits = {} THEN [found |-> FALSE, key |-> <<>>]
               ELSE [found |-> TRUE, key |-> db[CHOOSE i \in hits : \A j \in hits : i <= j].key]

\* the match of a candidate: its book_ID if that is a key, else the first
\* record in iteration order with the same lowercased title|author
FindMatch(db, new_book) ==
  IF new_book.book_ID # <<>> /\ Has(db, new_book.book_ID)
    THEN [found |-> TRUE, key |-> new_book.book_ID]
  ELSE LET hits == {i \in 1..Len(db) : TitleAuthor(db[i].val) = TitleAuthor(new_book)}
       IN  IF hits = {} THEN [found |-> FALSE, key |-> <<>>]
           ELSE [found |-> TRUE, key |-> db[CHOOSE i \in hits : \A j \in hits : i <= j].key]

Info(id, book) ==
  [book_ID |-> id, book_title |-> book.book_title, book_author |-> book.book_author]

\* a new book added as parsed, with no id assigned
NewCaseUnnumbered(st, new_book, i) ==
  [st EXCEPT !.db = Put(st.db, _book_key(new_book), new_book),
             !.pc = Unbound(st.pc, _book_key(new_book)),
             !.added = Append(st.added, Info(new_book.book_ID, new_book)),
             !.log = Append(st.log, [row |-> i, cls |-> "added", key |-> _book_key(new_book),
                                     cand |-> new_book, parsed |-> new_book,
                                     before |-> st.db])]

\* Case 1: new book, auto-assign the id and add
NewCase(st, new_book, i) ==
  LET auto == new_book.book_ID = <<>>
      Insert(nb, db_key) ==
        [st EXCEPT !.db = Put(st.db, db_key, nb),
                 !.pc = Unbound(st.pc, db_key),
                 !.added = Append(st.added, Info(nb.book_ID, nb)),
                 !.fresh = IF auto THEN Append(st.fresh, nb.book_ID) ELSE st.fresh,
                 !.log = Append(st.log, [row |-> i, cls |-> "added", key |-> db_key,
                                         cand |-> nb, parsed |-> new_book,
                                         before |-> st.db])]
  IN  Bind(IF auto THEN [new_book EXCEPT !.book_ID = _next_book_id(st.db)] ELSE new_book,
           LAMBDA nb : Insert(nb, _book_key(nb)))

\* a duplicate dropped without being reported
SkipCaseUnreported(st, new_book, key, i) ==
  [st EXCEPT !.log = Append(st.log, [row |-> i, cls |-> "skipped", key |-> key,
                                     cand |-> new_book, parsed |-> new_book,
                                     before |-> st.db])]

\* Case 2: exact duplicate, skipped
SkipCase(st, new_book, key, i) ==
  [st EXCEPT !.skipped = Append(st.skipped, Info(At(st.db, key).book_ID, new_book)),
             !.log = Append(st.log, [row |-> i, cls |-> "skipped", key |-> key,
                                     cand |-> new_book, parsed |-> new_book,
                                     before |-> st.db])]

\* a conflict written to the Catalog at once, as well as staged
ConflictCaseApplied(st, new_book, key, i) ==
  LET Stage(nb) ==
        [st EXCEPT
           !.db = Put(st.db, key, nb),
           !.pc = Put(st.pc, key, [old |-> At(st.db, key), new |-> nb, at |-> {}]),
           !.conflicted = Append(st.conflicted,
                                 [book_ID |-> nb.book_ID, book_title |-> nb.book_title,
                                  book_author |-> nb.book_author,
                                  differences |-> diff_fields(At(st.db, key), nb)]),
           !.log = Append(st.log, [row |-> i, cls |-> "conflicted", key |-> key,
                                   cand |-> nb, parsed |-> new_book,
                                   before |-> st.db])]
  IN  Bind([new_book EXCEPT !.book_ID = At(st.db, key).book_ID], Stage)

\* a conflict that leaves an entry already staged for the record as it is
ConflictCaseKeepFirst(st, new_book, key, i) ==
  LET Stage(nb) ==
        [st EXCEPT
           !.pc = IF Has(st.pc, key) THEN st.pc
                  ELSE Put(st.pc, key, [old |-> At(st.db, key), new |-> nb, at |-> {key}]),
           !.conflicted = Append(st.conflicted,
                                 [book_ID |-> nb.book_ID, book_title |-> nb.book_title,
                                  book_author |-> nb.book_author,
                                  differences |-> diff_fields(At(st.db, key), nb)]),
           !.log = Append(st.log, [row |-> i, cls |-> "conflicted", key |-> key,
                                   cand |-> nb, parsed |-> new_book,
                                   before |-> st.db])]
  IN  Bind([new_book EXCEPT !.book_ID = At(st.db, key).book_ID], Stage)

\* Case 3: exists but fields differ, staged as a conflict
ConflictCase(st, new_book, key, i) ==
  LET Stage(nb) ==
        [st EXCEPT
           !.pc = Put(st.pc, key, [old |-> At(st.db, key), new |-> nb, at |-> {key}]),
           !.conflicted = Append(st.conflicted,
                                 [book_ID |-> nb.book_ID, book_title |-> nb.book_title,
                                  book_author |-> nb.book_author,
                                  differences |-> diff_fields(At(st.db, key), nb)]),
           !.log = Append(st.log, [row |-> i, cls |-> "conflicted", key |-> key,
                                   cand |-> nb, parsed |-> new_book,
                                   before |-> st.db])]
  IN  Bind([new_book EXCEPT !.book_ID = At(st.db, key).book_ID], Stage)

\* one pass of "for row in rows"
ProcessRow(st, row, i) ==
  LET Classify(new_book, m) ==
        IF ~m.found THEN NewCase(st, new_book, i)
        ELSE IF books_are_equal(At(st.db, m.key), new_book)
          THEN SkipCase(st, new_book, m.key, i)
        ELSE ConflictCase(st, new_book, m.key, i)
  IN  Bind(parse_book_row(row),
           LAMBDA new_book : Bind(FindMatch(st.db, new_book),
                                  LAMBDA m : Classify(new_book, m)))

RECURSIVE ProcessRows(_, _, _)
ProcessRows(st0, rows, i) ==
  Bind(st0, LAMBDA st : IF i > Len(rows) THEN st
                        ELSE ProcessRows(ProcessRow(st, rows[i], i), rows, i + 1))

\* the stage of the previous run kept
StageKept(pc) == pc

\* "Clear previous conflicts": the stage a run starts from
ClearedStage(pc) == <<>>

\* the state the row loop starts from
StartRun(db, pc) ==
  [db |-> db, pc |-> ClearedStage(pc), added |-> <<>>, skipped |-> <<>>,
   conflicted |-> <<>>, fresh |-> <<>>, log |-> <<>>]

\* what resolve_cover_url may return for a record: "" always for an empty
\* query, else "" or a URL, as the lookup services decide
COVER_URL == <<"u">>

resolve_cover_url(book) ==
  LET search_title == OrElse(book.cover_search_title, book.book_title)
      author == book.book_author
      query == IF author # <<>> THEN Strip(search_title \o <<" ">> \o author)
               ELSE Strip(search_title)
  IN  IF query = <<>> THEN {<<>>} ELSE {<<>>, COVER_URL}

RECURSIVE ResolveAdded(_, _, _, _)
\* "for info in added_books": urls[i] is what the lookup returned for info i
ResolveAdded(st0, added, urls, i) ==
  LET Resolve(st) ==
        LET bid == added[i].book_ID
            book == [At(st.db, bid) EXCEPT !.cover_image_url = urls[i]]
        IN  IF Has(st.db, bid)
              THEN ResolveAdded([st EXCEPT !.db = Put(st.db, bid, book),
                                           !.pc = Mutated(st.pc, bid, book)],
                                added, urls, i + 1)
              ELSE ResolveAdded(st, added, urls, i + 1)
  IN  Bind(st0, LAMBDA st : IF i > Len(added) THEN st ELSE Resolve(st))

\* the url sequences the lookups may return for the added records
CoverOutcomes(st) ==
  {urls \in [1..Len(st.added) -> {<<>>, COVER_URL}] :
     \A i \in 1..Len(st.added) :
       Has(st.db, st.added[i].book_ID)
         => urls[i] \in resolve_cover_url(At(st.db, st.added[i].book_ID))}

(* ------------------------------ inputs --------------------------------- *)
\* a raw CSV row with every expected column and a book_ID column
Row(id, title, author, pages) ==
  [book_ID |-> id, book_title |-> title, book_author |-> author,
   sri_Rating |-> <<"4", ".", "5">>, goodreads_avg_rating |-> <<"4">>,
   goodreads_rating_count |-> <<"1", "2">>, page_count |-> pages,
   Genre_Intent |-> <<"x">>, Pace |-> <<"a">>, Plot_Character |-> <<"b">>,
   Mood_Finish |-> <<"c">>]

\* a row of a file whose header lacks the Pace and book_ID columns
ShortRow ==
  [book_title |-> <<"a">>, book_author |-> <<"b">>,
   sri_Rating |-> <<"4", ".", "5">>, goodreads_avg_rating |-> <<"4">>,
   goodreads_rating_count |-> <<"1", "2">>, page_count |-> <<"1", "5", "0">>,
   Genre_Intent |-> <<"x">>, Plot_Character |-> <<"b">>, Mood_Finish |-> <<"c">>]

RowPool ==
  { Row(<<>>, <<"a">>, <<"b">>, <<"1", "5", "0">>),
    Row(<<" ">>, <<" ", "a">>, <<"b", " ">>, <<"1", "x">>),
    Row(<<"2", " ">>, <<>>, <<>>, <<>>),
    ShortRow }

SeqsUpTo(S, n) == UNION {[1..k -> S] : k \in 0..n}

\* the parsed files: csv.DictReader gives every row the header's columns
Batches == {rows \in SeqsUpTo(RowPool, MaxRows) :
              \A i \in 1..Len(rows) : DOMAIN rows[i] = DOMAIN rows[1]}

\* the {book_id} of a PUT or DELETE path, as sent
KeyPool == {<<"1">>, <<"2">>, <<" ", "2">>}

\* the book_ids a confirm request may list, as sent
ConfirmPool == {<<"1">>, <<" ", "2">>}

\* bodies of PUT /books/{id}: the fields that are not None
ChangePool ==
  { <<>>,
    [book_title |-> <<"A", " ">>, page_count |-> 200] }

(* ------------------------------ state ---------------------------------- *)
\* resp is the response of the last request: its op, its HTTP status and the
\* fields the handler returns.  An accepted upload also records what the
\* response does not show: rows (the request), log (per row: its class, the
\* key matched or inserted, the candidate as parsed and as classified, the
\* Catalog the row met), fresh (the ids _next_book_id gave), urls (what the
\* cover lookups returned) and prior (the keys staged when the run began).
\* issued is the set of ids _next_book_id has ever given.
\* run is the reconcile run in progress, Idle when every request is served
\* whole.
\* save_db(): the file holds list(books_db.values())
save_db(db) == Values(db)

\* no reconcile run is in progress
Idle == [phase |-> "idle"]

Init ==
  /\ books_db = <<>>
  /\ pending_conflicts = <<>>
  /\ disk = <<>>
  /\ resp = [op |-> "init", status |-> 200]
  /\ issued = {}
  /\ run = Idle

\* ids that int() reads above MaxId are not handed out in this model
WithinBounds(st) ==
  /\ Len(st.db) <= MaxBooks
  /\ \A n \in NumericIds(st.db) : n <= MaxId

\* a run that clears the stage before it validates the file
UploadClearingFirst(rows) ==
  IF rows = <<>> \/ \E i \in 1..Len(CSV_COLUMNS) : CSV_COLUMNS[i] \notin DOMAIN rows[1]
    THEN /\ resp' = [op |-> "upload", status |-> 400]
         /\ pending_conflicts' = <<>>
         /\ UNCHANGED <<books_db, disk, issued>>
    ELSE \E st \in {ProcessRows(StartRun(books_db, pending_conflicts), rows, 1)} :
             /\ WithinBounds(st)
             /\ \E urls \in CoverOutcomes(st) :
                  \E fin \in {IF st.added # <<>> THEN ResolveAdded(st, st.added, urls, 1)
                              ELSE st} :
                      /\ books_db' = fin.db
                      /\ pending_conflicts' = fin.pc
                      /\ disk' = IF st.added # <<>> THEN save_db(fin.db) ELSE disk
                      /\ issued' = issued \cup Range(st.fresh)
                      /\ resp' = [op |-> "upload", status |-> 200, rows |-> rows,
                                  added_books |-> st.added, skipped_books |-> st.skipped,
                                  conflicted_books |-> st.conflicted,
                                  fresh |-> st.fresh, log |-> st.log, urls |-> urls,
                                  prior |-> Keys(pending_conflicts)]

\* POST /upload-csv
upload_csv(rows) ==
  IF rows = <<>> \/ \E i \in 1..Len(CSV_COLUMNS) : CSV_COLUMNS[i] \notin DOMAIN rows[1]
    THEN /\ resp' = [op |-> "upload", status |-> 400]
         /\ UNCHANGED <<books_db, pending_conflicts, disk, issued>>
    ELSE \E st \in {ProcessRows(StartRun(books_db, pending_conflicts), rows, 1)} :
             /\ WithinBounds(st)
             /\ \E urls \in CoverOutcomes(st) :
                  \E fin \in {IF st.added # <<>> THEN ResolveAdded(st, st.added, urls, 1)
                              ELSE st} :
                      /\ books_db' = fin.db
                      /\ pending_conflicts' = fin.pc
                      /\ disk' = IF st.added # <<>> THEN save_db(fin.db) ELSE disk
                      /\ issued' = issued \cup Range(st.fresh)
                      /\ resp' = [op |-> "upload", status |-> 200, rows |-> rows,
                                  added_books |-> st.added, skipped_books |-> st.skipped,
                                  conflicted_books |-> st.conflicted,
                                  fresh |-> st.fresh, log |-> st.log, urls |-> urls,
                                  prior |-> Keys(pending_conflicts)]

\* body.dict(exclude_none=True) applied field by field
ApplyChanges(book, changes) ==
  [c \in DOMAIN book |-> IF c \in DOMAIN changes THEN changes[c] ELSE book[c]]

\* PUT /books/{book_id}
update_book(book_id, changes) ==
  IF ~Has(books_db, book_id)
    THEN /\ resp' = [op |-> "update", status |-> 404]
         /\ UNCHANGED <<books_db, pending_conflicts, disk, issued>>
  ELSE IF DOMAIN changes = {}
    THEN /\ resp' = [op |-> "update", status |-> 400]
         /\ UNCHANGED <<books_db, pending_conflicts, disk, issued>>
  ELSE \E book \in {ApplyChanges(At(books_db, book_id), changes)} :
       LET new_key == _book_key(book)
           db1 == Put(books_db, book_id, book)
           pc1 == Mutated(pending_conflicts, book_id, book)
           db2 == IF new_key # book_id THEN Del(Put(db1, new_key, book), book_id) ELSE db1
           pc2 == IF new_key # book_id THEN Moved(Unbound(pc1, new_key), book_id, new_key)
                  ELSE pc1
       IN  /\ books_db' = db2
           /\ pending_conflicts' = pc2
           /\ disk' = save_db(db2)
           /\ resp' = [op |-> "update", status |-> 200, book_id |-> book_id, book |-> book]
           /\ UNCHANGED issued

\* a delete that is not saved
DeleteUnsaved(book_id) ==
  IF ~Has(books_db, book_id)
    THEN /\ resp' = [op |-> "delete", status |-> 404]
         /\ UNCHANGED <<books_db, pending_conflicts, disk, issued>>
    ELSE /\ books_db' = Del(books_db, book_id)
         /\ pending_conflicts' = Unbound(pending_conflicts, book_id)
         /\ resp' = [op |-> "delete", status |-> 200, book_id |-> book_id]
         /\ UNCHANGED <<disk, issued>>

\* DELETE /books/{book_id}
delete_book(book_id) ==
  IF ~Has(books_db, book_id)
    THEN /\ resp' = [op |-> "delete", status |-> 404]
         /\ UNCHANGED <<books_db, pending_conflicts, disk, issued>>
    ELSE /\ books_db' = Del(books_db, book_id)
         /\ pending_conflicts' = Unbound(pending_conflicts, book_id)
         /\ disk' = save_db(Del(books_db, book_id))
         /\ resp' = [op |-> "delete", status |-> 200, book_id |-> book_id]
         /\ UNCHANGED issued

\* the applied conflict left in the stage
ConfirmOneKept(st, bid) ==
  LET bid_stripped == Strip(bid)
  IN  IF Has(st.pc, bid_stripped)
        THEN [st EXCEPT !.db = Put(st.db, bid_stripped, At(st.pc, bid_stripped).new),
                        !.updated = Append(st.updated, bid_stripped)]
        ELSE [st EXCEPT !.not_found = Append(st.not_found, bid_stripped)]

\* one pass of "for bid in body.book_ids"
ConfirmOne(st, bid) ==
  LET bid_stripped == Strip(bid)
  IN  IF Has(st.pc, bid_stripped)
        THEN [st EXCEPT !.db = Put(st.db, bid_stripped, At(st.pc, bid_stripped).new),
                        !.updated = Append(st.updated, bid_stripped),
                        !.pc = Del(Unbound(st.pc, bid_stripped), bid_stripped)]
        ELSE [st EXCEPT !.not_found = Append(st.not_found, bid_stripped)]

RECURSIVE ConfirmLoop(_, _, _)
ConfirmLoop(st0, book_ids, i) ==
  Bind(st0, LAMBDA st : IF i > Len(book_ids) THEN st
                        ELSE ConfirmLoop(ConfirmOne(st, book_ids[i]), book_ids, i + 1))

\* confirm that does not look at the stage first
ConfirmUnguarded(book_ids) ==
  \E st \in {ConfirmLoop([db |-> books_db, pc |-> pending_conflicts,
                          updated |-> <<>>, not_found |-> <<>>], book_ids, 1)} :
      /\ books_db' = st.db
      /\ pending_conflicts' = st.pc
      /\ disk' = IF st.updated # <<>> THEN save_db(st.db) ELSE disk
      /\ resp' = [op |-> "confirm", status |-> 200, book_ids |-> book_ids,
                  updated |-> st.updated, not_found |-> st.not_found,
                  remaining_conflicts |-> Len(st.pc)]
      /\ UNCHANGED issued

\* POST /confirm-updates
confirm_updates(book_ids) ==
  IF pending_conflicts = <<>>
    THEN /\ resp' = [op |-> "confirm", status |-> 400]
         /\ UNCHANGED <<books_db, pending_conflicts, disk, issued>>
    ELSE \E st \in {ConfirmLoop([db |-> books_db, pc |-> pending_conflicts,
                                   updated |-> <<>>, not_found |-> <<>>], book_ids, 1)} :
             /\ books_db' = st.db
             /\ pending_conflicts' = st.pc
             /\ disk' = IF st.updated # <<>> THEN save_db(st.db) ELSE disk
             /\ resp' = [op |-> "confirm", status |-> 200, book_ids |-> book_ids,
                         updated |-> st.updated, not_found |-> st.not_found,
                         remaining_conflicts |-> Len(st.pc)]
             /\ UNCHANGED issued

(* ---------------------------- conflicts -------------------------------- *)
\* what GET /conflicts lists for a stage: one entry per staged key, in the
\* stage's order, its diff computed from the staged old and new as they are
\* at the time of the request
Listed(pc) ==
  [i \in 1..Len(pc) |->
     [book_ID |-> pc[i].val.new.book_ID,
      book_title |-> pc[i].val.new.book_title,
      book_author |-> pc[i].val.new.book_author,
      differences |-> diff_fields(pc[i].val.old, pc[i].val.new)]]

\* GET /conflicts
get_conflicts ==
  /\ resp' = [op |-> "conflicts", status |-> 200,
              conflicts |-> Listed(pending_conflicts),
              count |-> Len(pending_conflicts)]
  /\ UNCHANGED <<books_db, pending_conflicts, disk, issued>>

(* ---------------------------- recommend -------------------------------- *)
SCORING_FIELDS == <<"Pace", "Plot_Character", "Mood_Finish">>

ANY == <<"a", "n", "y">>

\* (low, high) of the length preference, both inclusive
page_range_for_length(length_key) ==
  LET key == normalize(length_key)
  IN  IF key = <<"s", "h", "o", "r", "t">> THEN <<0, 200>>
      ELSE IF key = <<"m", "e", "d", "i", "u", "m">> THEN <<201, 400>>
      ELSE IF key = <<"l", "o", "n", "g">> THEN <<401, 600>>
      ELSE IF key = <<"e", "p", "i", "c">> THEN <<601, 100000>>
      ELSE <<0, 0>>

\* request fields by the column each is scored against
user_values(body) ==
  [Pace |-> body.pace, Plot_Character |-> body.plot_character,
   Mood_Finish |-> body.mood_finish]

\* the scoring fields whose requested value is not "any"
active_fields(body) ==
  SelectSeq(SCORING_FIELDS, LAMBDA f : normalize(user_values(body)[f]) # ANY)

length_active(body) == normalize(body.length) # ANY

\* the fixed maximum of four in place of the request's own
MaxScoreFixed(body) == 4

max_score(body) == Len(active_fields(body)) + (IF length_active(body) THEN 1 ELSE 0)

\* the books whose Genre_Intent is the requested one, in iteration order
filtered_books(db, body) ==
  SelectSeq(Values(db), LAMBDA book : normalize(book.Genre_Intent) = normalize(body.genre_intent))

\* the length point of one book
LengthPoint(book, body) ==
  LET range == page_range_for_length(body.length)
  IN  IF length_active(body) /\ range[1] <= book.page_count /\ book.page_count <= range[2]
        THEN 1 ELSE 0

\* the score of one book
Score(book, body) ==
  LET fields == active_fields(body)
  IN  Cardinality({i \in 1..Len(fields) :
                     normalize(book[fields[i]]) = normalize(user_values(body)[fields[i]])})
        + LengthPoint(book, body)

RECURSIVE Pow(_, _)
Pow(b, e) == IF e = 0 THEN 1 ELSE b * Pow(b, e - 1)

\* gr_rating * log(1 + gr_count), kept as the pair (rating in tenths,
\* 1 + count): r1 * log(n1) < r2 * log(n2) exactly when n1^r1 < n2^r2
Popularity(book) ==
  [r |-> book.goodreads_avg_rating, n |-> 1 + book.goodreads_rating_count]

PopLess(p, q) ==
  IF p.r = q.r THEN p.r > 0 /\ p.n < q.n
  ELSE IF p.n = q.n THEN p.n > 1 /\ p.r < q.r
  ELSE Pow(p.n, p.r) < Pow(q.n, q.r)

\* (book, score, sri_rating, gr_popularity)
Scored(book, body) ==
  [book |-> book, score |-> Score(book, body), rating |-> book.sri_Rating,
   pop |-> Popularity(book)]

\* a sort key that leaves out the popularity
KeyLessNoPopularity(x, y) ==
  \/ x.score > y.score
  \/ x.score = y.score /\ x.rating > y.rating

\* key(x) < key(y) for key = (-score, -rating, -popularity)
KeyLess(x, y) ==
  \/ x.score > y.score
  \/ x.score = y.score /\ x.rating > y.rating
  \/ x.score = y.score /\ x.rating = y.rating /\ PopLess(y.pop, x.pop)

RECURSIVE SortScored(_)
\* list.sort(key): stable, an element goes after those whose key is not greater
SortScored(scored) ==
  IF scored = <<>> THEN <<>>
  ELSE LET n == Len(scored)
           x == scored[n]
       IN  Bind(SortScored(SubSeq(scored, 1, n - 1)),
                LAMBDA init :
                  LET k == Cardinality({j \in 1..Len(init) : ~KeyLess(x, init[j])})
                  IN  SubSeq(init, 1, k) \o <<x>> \o SubSeq(init, k + 1, Len(init)))

\* dict(book) with match_score and max_score set
Annotated(sc, max) ==
  [c \in DOMAIN sc.book \cup {"match_score", "max_score"} |->
     IF c = "match_score" THEN sc.score
     ELSE IF c = "max_score" THEN max
     ELSE sc.book[c]]

\* every book returned, the Genre_Intent filter left out
RecommendedUnfiltered(db, body) ==
  LET scored == [i \in 1..Len(db) |-> Scored(db[i].val, body)]
      sorted == SortScored(scored)
  IN  [i \in 1..Len(sorted) |-> Annotated(sorted[i], max_score(body))]

\* the "books" of the response
Recommended(db, body) ==
  LET books == filtered_books(db, body)
      scored == [i \in 1..Len(books) |-> Scored(books[i], body)]
  IN  Bind(SortScored(scored),
           LAMBDA sorted : [i \in 1..Len(sorted) |-> Annotated(sorted[i], max_score(body))])

\* POST /recommend
recommend(body) ==
  /\ IF books_db = <<>>
       THEN resp' = [op |-> "recommend", status |-> 400]
       ELSE \E result \in {Recommended(books_db, body)} :
              resp' = [op |-> "recommend", status |-> 200, body |-> body,
                       books |-> result, total |-> Len(result),
                       max_score |-> max_score(body),
                       genre_filter |-> normalize(body.genre_intent),
                       filtered_from |-> Len(books_db)]
  /\ UNCHANGED <<books_db, pending_conflicts, disk, issued>>

\* a RecommendRequest
Request(genre, pace, plot, mood, length) ==
  [genre_intent |-> genre, pace |-> pace, plot_character |-> plot,
   mood_finish |-> mood, length |-> length]

\* the request sent between the Catalog's operations
RequestPool == {Request(<<"X", " ">>, <<"a">>, ANY, <<"c">>, <<"s", "h", "o", "r", "t">>)}

\* every request is served from its first statement to its last before the
\* next one begins
Next ==
  \/ \E rows \in Batches : upload_csv(rows) /\ UNCHANGED run
  \/ \E k \in KeyPool, ch \in ChangePool : update_book(k, ch) /\ UNCHANGED run
  \/ \E k \in KeyPool : delete_book(k) /\ UNCHANGED run
  \/ \E ks \in SeqsUpTo(ConfirmPool, MaxKeys) : confirm_updates(ks) /\ UNCHANGED run
  \/ \E body \in RequestPool : recommend(body) /\ UNCHANGED run
  \/ get_conflicts /\ UNCHANGED run

Spec == Init /\ [][Next]_vars

(* --------------------------- failed saves ------------------------------ *)
\* save_db() has no handler around it: when the write raises, the request
\* ends in a 500 after the handler's changes in memory were made.  The file
\* is taken to be left as the last save that succeeded wrote it.
SaveFailed(op) == [op |-> op, status |-> 500]

\* POST /upload-csv where the save after the row loop, or the save after
\* the cover lookups, raises
upload_csv_save_fails(rows) ==
  /\ rows # <<>>
  /\ \A i \in 1..Len(CSV_COLUMNS) : CSV_COLUMNS[i] \in DOMAIN rows[1]
  /\ \E st \in {ProcessRows(StartRun(books_db, pending_conflicts), rows, 1)} :
       /\ WithinBounds(st)
       /\ st.added # <<>>
       /\ \/ /\ books_db' = st.db
             /\ pending_conflicts' = st.pc
             /\ disk' = disk
          \/ \E urls \in CoverOutcomes(st) :
               \E fin \in {ResolveAdded(st, st.added, urls, 1)} :
                 /\ books_db' = fin.db
                 /\ pending_conflicts' = fin.pc
                 /\ disk' = save_db(st.db)
       /\ issued' = issued \cup Range(st.fresh)
       /\ resp' = SaveFailed("upload")

\* PUT /books/{book_id} where the save raises
update_book_save_fails(book_id, changes) ==
  /\ Has(books_db, book_id)
  /\ DOMAIN changes # {}
  /\ \E book \in {ApplyChanges(At(books_db, book_id), changes)} :
       LET new_key == _book_key(book)
           db1 == Put(books_db, book_id, book)
           pc1 == Mutated(pending_conflicts, book_id, book)
       IN  /\ books_db' = IF new_key # book_id THEN Del(Put(db1, new_key, book), book_id)
                          ELSE db1
           /\ pending_conflicts' = IF new_key # book_id
                                     THEN Moved(Unbound(pc1, new_key), book_id, new_key)
                                   ELSE pc1
  /\ resp' = SaveFailed("update")
  /\ UNCHANGED <<disk, issued>>

\* DELETE /books/{book_id} where the save raises
delete_book_save_fails(book_id) ==
  /\ Has(books_db, book_id)
  /\ books_db' = Del(books_db, book_id)
  /\ pending_conflicts' = Unbound(pending_conflicts, book_id)
  /\ resp' = SaveFailed("delete")
  /\ UNCHANGED <<disk, issued>>

\* POST /confirm-updates where the save raises
confirm_updates_save_fails(book_ids) ==
  /\ pending_conflicts # <<>>
  /\ \E st \in {ConfirmLoop([db |-> books_db, pc |-> pending_conflicts,
                             updated |-> <<>>, not_found |-> <<>>], book_ids, 1)} :
       /\ st.updated # <<>>
       /\ books_db' = st.db
       /\ pending_conflicts' = st.pc
  /\ resp' = SaveFailed("confirm")
  /\ UNCHANGED <<disk, issued>>

\* a behaviour has at most one failed save, and ends with it
NextFail ==
  \/ resp.status # 500 /\ Next
  \/ resp.status # 500 /\ UNCHANGED run
       /\ \E rows \in Batches : upload_csv_save_fails(rows)
  \/ resp.status # 500 /\ UNCHANGED run
       /\ \E k \in KeyPool, ch \in ChangePool : update_book_save_fails(k, ch)
  \/ resp.status # 500 /\ UNCHANGED run
       /\ \E k \in KeyPool : delete_book_save_fails(k)
  \/ resp.status # 500 /\ UNCHANGED run
       /\ \E ks \in SeqsUpTo(ConfirmPool, MaxKeys) : confirm_updates_save_fails(ks)

SpecFail == Init /\ [][NextFail]_vars

(* ------------------- recommend on a stocked Catalog -------------------- *)
\* a stored record as an import or an edit leaves it
Book(genre, pace, plot, mood, pages, rating, gr, count) ==
  [book_ID |-> <<>>, book_title |-> <<"a">>, book_author |-> <<"b">>,
   sri_Rating |-> rating, goodreads_avg_rating |-> gr,
   goodreads_rating_count |-> count, page_count |-> pages,
   Genre_Intent |-> genre, Pace |-> pace, Plot_Character |-> plot,
   Mood_Finish |-> mood, goodreads_title |-> <<"a">>,
   cover_search_title |-> <<"a">>, cover_image_url |-> <<>>]

BookPool ==
  { Book(<<"x">>, <<"a">>, <<"b">>, <<"c">>, 150, 45, 2, 3),
    Book(<<" ", "X">>, <<"A", " ">>, <<"c">>, <<"b">>, 0, 45, 4, 3),
    Book(<<"x">>, <<"b">>, <<"c">>, <<"a">>, 100001, 30, 2, 3),
    Book(<<"y">>, <<"a">>, <<"b">>, <<"c">>, 601, 45, 2, 3),
    Book(<<"x">>, <<"a">>, <<"c">>, <<"c">>, 400, 30, 2, 1) }

\* the Catalogs of up to MaxBooks records, the i-th under the id i
Catalogs ==
  {[i \in 1..Len(bs) |-> [key |-> StrInt(i), val |-> [bs[i] EXCEPT !.book_ID = StrInt(i)]]] :
     bs \in SeqsUpTo(BookPool, MaxBooks)}

LengthPool ==
  { <<"s", "h", "o", "r", "t">>, <<"m", "e", "d", "i", "u", "m">>, <<"l", "o", "n", "g">>,
    <<" ", "e", "p", "i", "c">>, ANY, <<"x">>, <<>> }

Requests ==
  { Request(g, p, pl, m, l) :
      g \in {<<"X", " ">>, ANY}, p \in {ANY, <<"a">>}, pl \in {ANY, <<"b">>},
      m \in {ANY, <<"c">>}, l \in LengthPool }

InitRec ==
  /\ books_db \in Catalogs
  /\ pending_conflicts = <<>>
  /\ disk = save_db(books_db)
  /\ resp = [op |-> "init", status |-> 200]
  /\ issued = {}
  /\ run = Idle

NextRec == \E body \in Requests : recommend(body) /\ UNCHANGED run

SpecRec == InitRec /\ [][NextRec]_vars

(* ---------------- requests served during a reconcile run ---------------- *)
\* upload_csv is a coroutine of the event loop; the other handlers are plain
\* functions, which the framework serves on worker threads.  Nothing in the
\* file takes a lock, so a worker's request can be served between two
\* statements of a run.  Here a run is cut after "pending_conflicts = {}"
\* and after each pass of the row loop; the saves and the cover lookups are
\* one step with the response.  A run does not yield after "await
\* file.read()", so at most one run is past that point at a time.  run holds
\* the run's local variables, the Catalog and stage it began with (db0, pc0)
\* and the requests served since it began (during).  One run is followed,
\* from the empty Catalog and from a Catalog with a staged conflict.

\* requests served during one run, at most
MaxDuring == 1

\* an atomic run of upload_csv from Catalog and stage s, as a function
Ran(s, rows, urls) ==
  LET st == ProcessRows(StartRun(s.db, s.pc), rows, 1)
      fin == IF st.added # <<>> THEN ResolveAdded(st, st.added, urls, 1) ELSE st
  IN  [db |-> fin.db, pc |-> fin.pc]

\* where the run begins: nothing imported yet, or one record imported (its
\* cover found) and re-imported with another title case and page count, so
\* that a conflict is staged for it
Before ==
  LET Empty == [db |-> <<>>, pc |-> <<>>]
      First == Ran(Empty, <<Row(<<>>, <<"a">>, <<"b">>, <<"1", "5", "0">>)>>,
                   <<COVER_URL>>)
  IN  {Empty,
       Ran(First, <<Row(<<" ">>, <<" ", "a">>, <<"b", " ">>, <<"1", "x">>)>>, <<>>)}

InitConc ==
  /\ \E s \in Before : /\ books_db = s.db
                       /\ pending_conflicts = s.pc
  /\ disk = save_db(books_db)
  /\ resp = [op |-> "init", status |-> 200]
  /\ issued = Keys(books_db)
  /\ run = Idle

\* validation, then "pending_conflicts = {}"
upload_csv_begin(rows) ==
  /\ run = Idle
  /\ resp.op = "init"
  /\ IF rows = <<>> \/ \E i \in 1..Len(CSV_COLUMNS) : CSV_COLUMNS[i] \notin DOMAIN rows[1]
       THEN /\ resp' = [op |-> "upload", status |-> 400]
            /\ UNCHANGED <<books_db, pending_conflicts, disk, issued, run>>
       ELSE /\ pending_conflicts' = ClearedStage(pending_conflicts)
            /\ run' = [phase |-> "rows", rows |-> rows, i |-> 1,
                       added |-> <<>>, skipped |-> <<>>, conflicted |-> <<>>,
                       fresh |-> <<>>, log |-> <<>>,
                       db0 |-> books_db, pc0 |-> pending_conflicts, during |-> <<>>]
            /\ UNCHANGED <<books_db, disk, resp, issued>>

\* one pass of "for row in rows", on the Catalog and stage as they are now
upload_csv_row ==
  /\ run.phase = "rows"
  /\ run.i <= Len(run.rows)
  /\ \E st \in {ProcessRow([db |-> books_db, pc |-> pending_conflicts,
                            added |-> run.added, skipped |-> run.skipped,
                            conflicted |-> run.conflicted, fresh |-> run.fresh,
                            log |-> run.log], run.rows[run.i], run.i)} :
         /\ WithinBounds(st)
         /\ books_db' = st.db
         /\ pending_conflicts' = st.pc
         /\ issued' = issued \cup Range(st.fresh)
         /\ run' = [run EXCEPT !.i = run.i + 1, !.added = st.added,
                               !.skipped = st.skipped, !.conflicted = st.conflicted,
                               !.fresh = st.fresh, !.log = st.log]
         /\ UNCHANGED <<disk, resp>>

\* after the loop: save, cover lookups, save, response
upload_csv_end ==
  /\ run.phase = "rows"
  /\ run.i > Len(run.rows)
  /\ \E st \in {[db |-> books_db, pc |-> pending_conflicts, added |-> run.added]} :
       \E urls \in CoverOutcomes(st) :
         \E fin \in {IF st.added # <<>> THEN ResolveAdded(st, st.added, urls, 1)
                     ELSE st} :
             /\ books_db' = fin.db
             /\ pending_conflicts' = fin.pc
             /\ disk' = IF st.added # <<>> THEN save_db(fin.db) ELSE disk
             /\ resp' = [op |-> "upload", status |-> 200, rows |-> run.rows,
                         added_books |-> run.added, skipped_books |-> run.skipped,
                         conflicted_books |-> run.conflicted,
                         fresh |-> run.fresh, log |-> run.log, urls |-> urls,
                         prior |-> Keys(run.pc0),
                         db0 |-> run.db0, pc0 |-> run.pc0, during |-> run.during]
             /\ run' = Idle
             /\ UNCHANGED issued

\* a worker's request is served during the run
Served(req) ==
  /\ run.phase = "rows"
  /\ Len(run.during) < MaxDuring
  /\ run' = [run EXCEPT !.during = Append(@, req)]

NextConc ==
  \/ \E rows \in Batches : upload_csv_begin(rows)
  \/ upload_csv_row
  \/ upload_csv_end
  \/ \E k \in KeyPool, ch \in ChangePool :
       update_book(k, ch) /\ Served([op |-> "update", book_id |-> k, changes |-> ch])
  \/ \E k \in KeyPool : delete_book(k) /\ Served([op |-> "delete", book_id |-> k])
  \/ \E ks \in SeqsUpTo(ConfirmPool, MaxKeys) :
       confirm_updates(ks) /\ Served([op |-> "confirm", book_ids |-> ks])
  \/ \E body \in RequestPool :
       recommend(body) /\ Served([op |-> "recommend", body |-> body, saw |-> books_db])
  \/ get_conflicts /\ Served([op |-> "conflicts"])

SpecConc == InitConc /\ [][NextConc]_vars

(* ------------------------------ claims --------------------------------- *)
Accepted(r) == r.op = "upload" /\ r.status = 200

Confirmed(r) == r.op = "confirm" /\ r.status = 200

\* the log entries of one class, in input order
OfClass(log, cls) == SelectSeq(log, LAMBDA e : e.cls = cls)

\* the record a row matched, as the row met it
Existing(e) == At(e.before, e.key)

\* lowercased, trimmed title|author, from normalize()
TitleAuthorOf(book) == normalize(book.book_title) \o <<"|">> \o normalize(book.book_author)

\* the columns whose string representations differ
Differing(old, new) == {c \in Range(DB_COLUMNS) : Str(c, old[c]) # Str(c, new[c])}

\* C1: the same batch reconciled twice in succession, nothing in between:
\* the second run classifies every row Duplicate, adds nothing, stages nothing.
C1_IdempotentReimport ==
  [][(Accepted(resp) /\ Accepted(resp') /\ resp'.rows = resp.rows)
       => /\ Len(resp'.skipped_books) = Len(resp'.rows)
          /\ resp'.added_books = <<>>
          /\ resp'.conflicted_books = <<>>
          /\ pending_conflicts' = <<>>]_vars

\* every Conflict row: the staged record carries the existing record's id, is
\* staged under the existing record's key, and the reported diff is exactly
\* the columns that differ between the existing record and the candidate
ConflictsReported ==
  Accepted(resp) =>
    LET cs == OfClass(resp.log, "conflicted")
    IN  /\ Len(cs) = Len(resp.conflicted_books)
        /\ \A k \in 1..Len(cs) :
             /\ cs[k].cand.book_ID = Existing(cs[k]).book_ID
             /\ Has(cs[k].before, cs[k].key)
             /\ Has(pending_conflicts, cs[k].key)
             /\ At(pending_conflicts, cs[k].key).new.book_ID = Existing(cs[k]).book_ID
             /\ resp.conflicted_books[k].book_ID = Existing(cs[k]).book_ID
             /\ DOMAIN resp.conflicted_books[k].differences
                  = Differing(Existing(cs[k]), cs[k].cand)
             /\ \A c \in DOMAIN resp.conflicted_books[k].differences :
                  resp.conflicted_books[k].differences[c]
                    = [old |-> Str(c, Existing(cs[k])[c]), new |-> Str(c, cs[k].cand[c])]

\* a one-row import created a record from a row without id; the next import
\* is one row without id that differs from that row in page count alone: it
\* yields one conflict, keyed on the record's key, whose diff is page_count
PageCountOnly ==
  (/\ Accepted(resp) /\ Len(resp.rows) = 1 /\ resp.log[1].cls = "added"
   /\ resp.log[1].parsed.book_ID = <<>>
   /\ Accepted(resp') /\ Len(resp'.rows) = 1
   /\ resp'.log[1].parsed.book_ID = <<>>
   /\ Differing(resp.log[1].parsed, resp'.log[1].parsed) = {"page_count"})
  => /\ Len(resp'.conflicted_books) = 1
     /\ Keys(pending_conflicts') = {resp.log[1].key}
     /\ DOMAIN resp'.conflicted_books[1].differences = {"page_count"}

\* C2: a Conflict row is staged with the existing record's id under the
\* existing record's key with the exact diff, and a re-import that changes
\* only the page count yields one conflict whose diff is page_count alone.
C2_ConflictDiff == [][ConflictsReported' /\ PageCountOnly]_vars

\* C3: an id the Catalog assigned is never assigned again to a record added
\* later, also after the first record was deleted.
C3_IdNeverReused ==
  [][Accepted(resp') => Range(resp'.fresh) \cap issued = {}]_vars

\* the id one greater than the largest numeric id in db, 1 if there is none
FreshId(db) ==
  LET nums == {ParseInt(db[j].val.book_ID).val :
                 j \in {j \in 1..Len(db) : ParseInt(db[j].val.book_ID).ok}}
  IN  IF nums = {} THEN <<"1">>
      ELSE StrInt((CHOOSE m \in nums : \A n \in nums : n <= m) + 1)

\* what holds of every New row, whatever id it came with
NewInserted(e) ==
  /\ e.key = _book_key(e.cand)
  /\ ~Has(e.before, e.key)

AddedIdsDistinct(r) ==
  LET as == OfClass(r.log, "added")
  IN  \A a, b \in 1..Len(as) : a # b => as[a].cand.book_ID # as[b].cand.book_ID

C5_ConfirmRoundTrip ==
  [][Confirmed(resp') =>
       LET req == {Strip(resp'.book_ids[i]) : i \in 1..Len(resp'.book_ids)}
           staged == Keys(pending_conflicts)
           applied == req \cap staged
       IN  /\ \A k \in applied :
                /\ Has(books_db', k)
                /\ At(books_db', k) = At(pending_conflicts, k).new
                /\ ~Has(pending_conflicts', k)
           /\ Range(resp'.updated) = applied
           /\ \A k \in req \ staged : k \in Range(resp'.not_found)
           /\ Range(resp'.updated) \cup Range(resp'.not_found) = req
           /\ Keys(books_db') = Keys(books_db) \cup applied
           /\ \A k \in Keys(books_db) \ applied : At(books_db', k) = At(books_db, k)
           /\ Keys(pending_conflicts') = staged \ applied
           /\ \A k \in staged \ applied :
                /\ At(pending_conflicts', k).old = At(pending_conflicts, k).old
                /\ At(pending_conflicts', k).new = At(pending_conflicts, k).new]_vars

\* a confirm that applied a staged key and reported another key not found
C5_Witness ==
  /\ Confirmed(resp)
  /\ resp.updated # <<>>
  /\ resp.not_found # <<>>
  /\ Range(resp.not_found) \cap Range(resp.updated) = {}

\* C6: after an accepted run the stage holds only conflicts of that run: a
\* key staged before survives only if the run detected it again, and a run
\* that detects no conflict leaves the stage empty.
C6_StageReplaced ==
  Accepted(resp) =>
    LET cs == OfClass(resp.log, "conflicted")
    IN  /\ \A i \in 1..Len(pending_conflicts) :
             \E k \in 1..Len(cs) :
               /\ cs[k].key = pending_conflicts[i].key
               /\ cs[k].cand = pending_conflicts[i].val.new
        /\ (resp.conflicted_books = <<>> => pending_conflicts = <<>>)

\* a run that began with a staged conflict it did not detect again
C6_Witness ==
  /\ Accepted(resp)
  /\ \E k \in resp.prior : ~Has(pending_conflicts, k)
  /\ resp.conflicted_books # <<>>

\* C7: a run changes the Catalog only by adding its New records and setting
\* their cover URL: every record there before is there after, under its key,
\* with every field unchanged, matched by a Duplicate or Conflict row or not.
C7_CatalogFrame ==
  [][Accepted(resp') =>
       LET as == OfClass(resp'.log, "added")
       IN  /\ Len(books_db') = Len(books_db) + Len(as)
           /\ SubSeq(books_db', 1, Len(books_db)) = books_db
           /\ \A k \in 1..Len(as) :
                books_db'[Len(books_db) + k]
                  = [key |-> as[k].key,
                     val |-> [as[k].cand EXCEPT !.cover_image_url = resp'.urls[k]]]]_vars

\* a run on a Catalog that held a record: it staged a Conflict and added a
\* record whose cover was found
C7_Witness ==
  /\ Accepted(resp)
  /\ resp.log[1].before # <<>>
  /\ resp.conflicted_books # <<>>
  /\ \E k \in 1..Len(resp.urls) : resp.urls[k] = COVER_URL

\* C8: from an empty Catalog, whatever was reconciled, confirmed, edited and
\* deleted, every entry has a non-empty id and lies under the key the
\* Identity Resolver gives for its id, title and author.
C8_KeyedById ==
  \A i \in 1..Len(books_db) :
    /\ Strip(books_db[i].val.book_ID) # <<>>
    /\ books_db[i].key = _book_key(books_db[i].val)

\* an edited title in the Catalog, next to a record a confirm has written
C8_Witness ==
  /\ Confirmed(resp)
  /\ resp.updated # <<>>
  /\ \E i \in 1..Len(books_db) : books_db[i].val.book_title = <<"A", " ">>

\* C9: every row of an accepted batch is in exactly one of added, skipped
\* and conflicted; each list keeps input order; a garbled number stops
\* neither its row nor a later one from being classified.
C9_EveryRowClassified ==
  Accepted(resp) =>
    LET Infos(cls) ==
          [k \in 1..Len(OfClass(resp.log, cls)) |->
             [book_title |-> OfClass(resp.log, cls)[k].cand.book_title,
              book_author |-> OfClass(resp.log, cls)[k].cand.book_author]]
        Shown(list) ==
          [k \in 1..Len(list) |->
             [book_title |-> list[k].book_title, book_author |-> list[k].book_author]]
    IN  /\ Len(resp.added_books) + Len(resp.skipped_books) + Len(resp.conflicted_books)
             = Len(resp.rows)
        /\ Len(resp.log) = Len(resp.rows)
        /\ \A i \in 1..Len(resp.rows) :
             /\ resp.log[i].row = i
             /\ resp.log[i].cls \in {"added", "skipped", "conflicted"}
             /\ resp.log[i].cand.book_title = Strip(resp.rows[i].book_title)
        /\ Shown(resp.added_books) = Infos("added")
        /\ Shown(resp.skipped_books) = Infos("skipped")
        /\ Shown(resp.conflicted_books) = Infos("conflicted")

\* a batch whose first row has a page count that is no number, followed by
\* another row, with a Duplicate among them
C9_Witness ==
  /\ Accepted(resp)
  /\ Len(resp.rows) = 2
  /\ resp.rows[1].page_count # <<>>
  /\ ~ParseInt(resp.rows[1].page_count).ok
  /\ resp.log[1].cand.page_count = 0
  /\ resp.skipped_books # <<>>

\* C10: a candidate whose non-empty id is a Catalog key matches that record
\* whatever its title and author; any other candidate matches a record with
\* the same lowercased, trimmed title|author; it is New exactly when neither
\* match exists.
C10_TwoTierMatch ==
  Accepted(resp) =>
    \A k \in 1..Len(resp.log) :
      LET e == resp.log[k]
          byId == e.parsed.book_ID # <<>> /\ Has(e.before, e.parsed.book_ID)
          byTitle == \E j \in 1..Len(e.before) :
                       TitleAuthorOf(e.before[j].val) = TitleAuthorOf(e.parsed)
      IN  /\ byId => e.cls # "added" /\ e.key = e.parsed.book_ID
          /\ (~byId /\ byTitle)
               => /\ e.cls # "added"
                  /\ Has(e.before, e.key)
                  /\ TitleAuthorOf(Existing(e)) = TitleAuthorOf(e.parsed)
          /\ (e.cls = "added") <=> (~byId /\ ~byTitle)

\* with two records in the Catalog, a row matched by its id a record whose
\* title|author is not the row's
C10_Witness ==
  /\ Accepted(resp)
  /\ \E k \in 1..Len(resp.log) :
       LET e == resp.log[k]
       IN  /\ e.cls # "added"
           /\ e.parsed.book_ID # <<>>
           /\ e.key = e.parsed.book_ID
           /\ TitleAuthorOf(Existing(e)) # TitleAuthorOf(e.parsed)
           /\ Len(e.before) = 2

\* C11: confirm on an empty stage fails with EmptyStage whatever keys are
\* requested, also when earlier confirms emptied the stage; confirm on a
\* non-empty stage never fails, even when no requested key is staged.
C11_EmptyStageOnly ==
  [][resp'.op = "confirm" =>
       /\ pending_conflicts = <<>> => resp'.status = 400
       /\ pending_conflicts # <<>> => resp'.status = 200
       /\ (Confirmed(resp) /\ resp.remaining_conflicts = 0) => resp'.status = 400]_vars

\* a confirm on a non-empty stage that found none of its keys staged
C11_Witness ==
  /\ Confirmed(resp)
  /\ resp.book_ids # <<>>
  /\ resp.updated = <<>>
  /\ Len(resp.not_found) = Len(resp.book_ids)
  /\ pending_conflicts # <<>>

\* the outcomes that are errors
Failed(r) == r.status >= 400

\* C12: an operation that ends in an error (rejected batch, edit or delete
\* of an unknown key, edit with no fields, confirm on an empty stage,
\* recommend on an empty Catalog) leaves Catalog and stage as they were; a
\* rejected batch does not clear the stage.
C12_ErrorsLeaveState ==
  [][Failed(resp') => /\ books_db' = books_db
                      /\ pending_conflicts' = pending_conflicts]_vars

\* a batch was rejected while conflicts were staged, and they still are
C12_Witness ==
  /\ resp.op = "upload"
  /\ resp.status = 400
  /\ pending_conflicts # <<>>

\* C13: when the save fails during a reconcile, confirm, edit or delete, the
\* operation is reported as failed and the Catalog in memory is the one last
\* saved.
C13_FailedSaveKeepsCatalog ==
  resp.status = 500 => Values(books_db) = disk

\* C14: with saves that succeed, after every completed mutating operation (a
\* reconcile that added records, a confirm that applied a conflict, an edit,
\* a delete) the file holds the Catalog in memory.
C14_SavedAfterMutation ==
  [][(resp'.status = 200 /\ resp'.op \in {"upload", "confirm", "update", "delete"})
       => disk' = Values(books_db')]_vars

\* a confirm applied a staged conflict, and the file holds the Catalog it left
C14_Witness ==
  /\ Confirmed(resp)
  /\ resp.updated # <<>>
  /\ disk # <<>>
  /\ disk = Values(books_db)

\* a recommendation that was answered
Recommendation(r) == r.op = "recommend" /\ r.status = 200

\* the Catalog record of a returned one
Stored(out) == [c \in DOMAIN out \ {"match_score", "max_score"} |-> out[c]]

\* the requested value of each scorable dimension
Wanted(body) ==
  [Pace |-> body.pace, Plot_Character |-> body.plot_character,
   Mood_Finish |-> body.mood_finish]

IsAny(t) == normalize(t) = <<"a", "n", "y">>

\* the scorable dimensions not requested as "any"
ActiveDims(body) == {f \in DOMAIN Wanted(body) : ~IsAny(Wanted(body)[f])}

\* the active dimensions on which the book has the requested value
DimPoints(book, body) ==
  Cardinality({f \in ActiveDims(body) : normalize(book[f]) = normalize(Wanted(body)[f])})

\* C15: recommend fails with NoCatalog exactly when the Catalog is empty;
\* otherwise it returns, each once, exactly the records whose intent tag is
\* the requested one after trimming and lowercasing, and an empty list
\* without error when there is none.
C15_FilterByIntent ==
  resp.op = "recommend" =>
    /\ resp.status = 400 <=> books_db = <<>>
    /\ resp.status = 200 <=> books_db # <<>>
    /\ resp.status = 200 =>
         LET hits == {i \in 1..Len(books_db) :
                        normalize(books_db[i].val.Genre_Intent)
                          = normalize(resp.body.genre_intent)}
         IN  /\ Len(resp.books) = Cardinality(hits)
             /\ \A i \in hits :
                  Cardinality({j \in 1..Len(resp.books) :
                                 Stored(resp.books[j]) = books_db[i].val}) = 1
             /\ \A j \in 1..Len(resp.books) :
                  \E i \in hits : Stored(resp.books[j]) = books_db[i].val

\* of two records one is returned, its stored tag differing from the
\* requested one in case and spacing, and the other is left out
C15_Witness ==
  /\ Recommendation(resp)
  /\ Len(books_db) = 2
  /\ Len(resp.books) = 1
  /\ resp.books[1].Genre_Intent # resp.body.genre_intent
  /\ resp.books[1].Genre_Intent # normalize(resp.books[1].Genre_Intent)

\* the page counts of the bucket a length names: short 0..200, medium
\* 201..400, long 401..600, epic 601 and above; no other value names one
InBucket(length, pages) ==
  LET key == normalize(length)
  IN  \/ key = <<"s", "h", "o", "r", "t">> /\ 0 <= pages /\ pages <= 200
      \/ key = <<"m", "e", "d", "i", "u", "m">> /\ 201 <= pages /\ pages <= 400
      \/ key = <<"l", "o", "n", "g">> /\ 401 <= pages /\ pages <= 600
      \/ key = <<"e", "p", "i", "c">> /\ 601 <= pages

\* the length point a returned record got: its score less its dimensions'
LengthPointOf(out, body) == out.match_score - DimPoints(Stored(out), body)

\* the score of a returned record is one per matching active dimension,
\* plus one if length is active and the page count is in the bucket
ScoreAsClaimed(out, body) ==
  out.match_score
    = DimPoints(Stored(out), body)
        + (IF ~IsAny(body.length) /\ InBucket(body.length, out.page_count) THEN 1 ELSE 0)

\* requested with Pace and Mood given, Plot_Character "any" and length
\* short: a 150-page record matching Pace and Mood has 3 of 3 and stands
\* before every returned record that matches nothing
ExampleRanked(r) ==
  (/\ ActiveDims(r.body) = {"Pace", "Mood_Finish"}
   /\ normalize(r.body.length) = <<"s", "h", "o", "r", "t">>)
  => \A j \in 1..Len(r.books) :
       (r.books[j].page_count = 150 /\ DimPoints(Stored(r.books[j]), r.body) = 2)
         => /\ r.books[j].match_score = 3
            /\ r.books[j].max_score = 3
            /\ \A k \in 1..Len(r.books) : r.books[k].match_score = 0 => j < k

\* the scores of the records of at most 100000 pages, under a request whose
\* length is "any" or names a bucket
ScoreWithinCap ==
  Recommendation(resp) =>
    /\ \A j \in 1..Len(resp.books) :
         (/\ resp.books[j].page_count <= 100000
          /\ \/ IsAny(resp.body.length)
             \/ \E p \in {0, 201, 401, 601} : InBucket(resp.body.length, p))
           => ScoreAsClaimed(resp.books[j], resp.body)
    /\ ExampleRanked(resp)

\* C16: a returned record's score is the number of active scorable
\* dimensions on which it has the requested value, plus 1 if length is
\* active and its page count lies in the requested bucket; the intent tag
\* adds nothing.  A 150-page record matching Pace and Mood, requested with
\* length short and Plot_Character "any", has 3 of 3 and ranks above a
\* record of the same intent that matches nothing.
C16_ScoreCounts ==
  Recommendation(resp) =>
    /\ \A j \in 1..Len(resp.books) : ScoreAsClaimed(resp.books[j], resp.body)
    /\ ExampleRanked(resp)

\* C17: max_score is the number of scorable dimensions not "any", plus 1 if
\* length is not "any"; every returned record carries that max_score and a
\* score from 0 to it; with every dimension and length "any", max_score is
\* 0 and every returned record has score 0.
C17_MaxScore ==
  Recommendation(resp) =>
    LET max == Cardinality(ActiveDims(resp.body)) + (IF IsAny(resp.body.length) THEN 0 ELSE 1)
    IN  /\ resp.max_score = max
        /\ \A j \in 1..Len(resp.books) :
             /\ resp.books[j].max_score = max
             /\ 0 <= resp.books[j].match_score
             /\ resp.books[j].match_score <= max
        /\ (ActiveDims(resp.body) = {} /\ IsAny(resp.body.length))
             => /\ resp.max_score = 0
                /\ \A j \in 1..Len(resp.books) : resp.books[j].match_score = 0

\* every dimension and length "any": two records returned at 0 of 0
C17_Witness ==
  /\ Recommendation(resp)
  /\ ActiveDims(resp.body) = {}
  /\ IsAny(resp.body.length)
  /\ Len(resp.books) = 2
  /\ resp.max_score = 0

\* the position in the Catalog of a returned record
CatalogIndex(out) == CHOOSE i \in 1..Len(books_db) : books_db[i].val = Stored(out)

\* popularity a below popularity b, for rating * log(1 + count)
LessPopular(a, b) == PopLess(Popularity(a), Popularity(b))

\* C18: the list is ordered by score, then personal rating, then
\* popularity, each descending: of two returned records the earlier is
\* greater or equal on (score, rating, popularity), and records equal on
\* all three stand in Catalog iteration order.
C18_Ranked ==
  Recommendation(resp) =>
    \A j, k \in 1..Len(resp.books) :
      j < k =>
        LET a == resp.books[j]
            b == resp.books[k]
        IN  /\ a.match_score >= b.match_score
            /\ a.match_score = b.match_score => a.sri_Rating >= b.sri_Rating
            /\ (a.match_score = b.match_score /\ a.sri_Rating = b.sri_Rating)
                 => ~LessPopular(a, b)
            /\ (/\ a.match_score = b.match_score
                /\ a.sri_Rating = b.sri_Rating
                /\ ~LessPopular(a, b)
                /\ ~LessPopular(b, a))
                 => CatalogIndex(a) < CatalogIndex(b)

\* two records equal in score and rating returned against Catalog order,
\* the more popular first
C18_Witness ==
  /\ Recommendation(resp)
  /\ Len(resp.books) = 2
  /\ resp.books[1].match_score = resp.books[2].match_score
  /\ resp.books[1].sri_Rating = resp.books[2].sri_Rating
  /\ LessPopular(resp.books[2], resp.books[1])
  /\ CatalogIndex(resp.books[1]) > CatalogIndex(resp.books[2])

\* the lengths that name a bucket
BucketNames ==
  {<<"s", "h", "o", "r", "t">>, <<"m", "e", "d", "i", "u", "m">>, <<"l", "o", "n", "g">>,
   <<"e", "p", "i", "c">>}

\* page counts at the edges of the buckets, up to 100000
PageSamples == {0, 1, 200, 201, 400, 401, 600, 601, 100000}

\* pages is in the range the code gives for the length
InCodeRange(length, pages) ==
  /\ page_range_for_length(length)[1] <= pages
  /\ pages <= page_range_for_length(length)[2]

\* pages lies in exactly one bucket, the one claimed
InOneBucket(pages) ==
  /\ Cardinality({l \in BucketNames : InCodeRange(l, pages)}) = 1
  /\ \A l \in BucketNames : InCodeRange(l, pages) <=> InBucket(l, pages)

\* up to 100000 pages the ranges are the claimed buckets
BucketsUpToCap == \A p \in PageSamples : InOneBucket(p)

\* C19: the buckets are the inclusive ranges short 0..200, medium 201..400,
\* long 401..600 and epic 601 and above without upper bound: every record
\* of 601 pages or more earns the length point under "epic", and every
\* non-negative page count lies in exactly one bucket.
C19_LengthBuckets ==
  Recommendation(resp) =>
    \A j \in 1..Len(resp.books) :
      /\ InOneBucket(resp.books[j].page_count)
      /\ (/\ normalize(resp.body.length) = <<"e", "p", "i", "c">>
          /\ resp.books[j].page_count >= 601)
           => LengthPointOf(resp.books[j], resp.body) = 1

\* C20: a length that is none of short, medium, long, epic ("any" and every
\* unrecognised value) adds nothing: under such a request no record gains a
\* length point, whatever its page count, 0 included.
C20_NoBucketNoPoint ==
  (Recommendation(resp) /\ normalize(resp.body.length) \notin BucketNames)
    => \A j \in 1..Len(resp.books) : LengthPointOf(resp.books[j], resp.body) = 0

\* under length "any" no record gains a length point, a record of 0 pages
\* included
NoPointUnderAny ==
  (Recommendation(resp) /\ IsAny(resp.body.length))
    => \A j \in 1..Len(resp.books) : LengthPointOf(resp.books[j], resp.body) = 0

\* C21: "any" means "ignore this dimension" for the intent dimension too: a
\* request whose intent is "any" excludes no record, so every Catalog record
\* is returned and ranked.
C21_AnyIntentKeepsAll ==
  (Recommendation(resp) /\ IsAny(resp.body.genre_intent))
    => /\ Len(resp.books) = Len(books_db)
       /\ \A i \in 1..Len(books_db) :
            \E j \in 1..Len(resp.books) : Stored(resp.books[j]) = books_db[i].val

\* the diff the run reported for the record staged under key k: that of the
\* last row of the batch that conflicted with it
ReportedDiff(r, k) ==
  LET cs == OfClass(r.log, "conflicted")
      last == CHOOSE j \in 1..Len(cs) :
                cs[j].key = k /\ \A j2 \in (j + 1)..Len(cs) : cs[j2].key # k
  IN  r.conflicted_books[last].differences

\* what list() would answer for the record staged under key k
ListedDiff(pc, k) == Listed(pc)[IndexOf(pc, k)].differences

\* C22: a staged old and new do not change until the entry is confirmed or
\* the stage is replaced: when a run answers, list() gives for every staged
\* key the diff the run reported (the run's own cover resolution included),
\* and no edit, delete or listing changes what is staged under a key.
C22_StagedFrozen ==
  [][/\ Accepted(resp')
          => \A k \in Keys(pending_conflicts') :
               ListedDiff(pending_conflicts', k) = ReportedDiff(resp', k)
     /\ resp'.op \in {"update", "delete", "conflicts", "recommend"}
          => \A k \in Keys(pending_conflicts) \cap Keys(pending_conflicts') :
               /\ At(pending_conflicts', k).old = At(pending_conflicts, k).old
               /\ At(pending_conflicts', k).new = At(pending_conflicts, k).new]_vars

\* C25: every entry a run reports in conflicted, and every entry list()
\* returns, has a non-empty diff.
C25_NonEmptyDiff ==
  /\ Accepted(resp)
       => \A i \in 1..Len(resp.conflicted_books) :
            DOMAIN resp.conflicted_books[i].differences # {}
  /\ resp.op = "conflicts"
       => \A i \in 1..Len(resp.conflicts) :
            DOMAIN resp.conflicts[i].differences # {}

\* C26: every staged key is a key of the Catalog for as long as it is staged,
\* and a confirm only replaces records that exist: it never changes the set
\* of Catalog keys, so it cannot bring back a record deleted after staging.
C26_StagedKeysInCatalog ==
  [][/\ Keys(pending_conflicts') \subseteq Keys(books_db')
     /\ resp'.op = "confirm" => Keys(books_db') = Keys(books_db)]_vars

\* C27: after an accepted run the staged keys are exactly the keys of the
\* existing records that the rows reported in conflicted matched; when
\* several rows conflict with the same record the stage holds one entry for
\* it, and its new is the candidate of the last such row.
C27_LastCandidateStaged ==
  Accepted(resp) =>
    LET cs == OfClass(resp.log, "conflicted")
    IN  /\ Len(cs) = Len(resp.conflicted_books)
        /\ Keys(pending_conflicts) = {cs[j].key : j \in 1..Len(cs)}
        /\ Len(pending_conflicts) = Cardinality(Keys(pending_conflicts))
        /\ \A j \in 1..Len(cs) :
             /\ Has(cs[j].before, cs[j].key)
             /\ Has(books_db, cs[j].key)
             /\ (\A j2 \in (j + 1)..Len(cs) : cs[j2].key # cs[j].key)
                  => At(pending_conflicts, cs[j].key).new = cs[j].cand

\* two rows of one batch conflicted with the same record with different
\* candidates, and the stage holds the second one's
C27_Witness ==
  /\ Accepted(resp)
  /\ LET cs == OfClass(resp.log, "conflicted")
     IN  /\ Len(cs) = 2
         /\ cs[1].key = cs[2].key
         /\ cs[1].cand # cs[2].cand
         /\ Len(pending_conflicts) = 1
         /\ At(pending_conflicts, cs[2].key).new = cs[2].cand

\* confirm_updates served alone on Catalog and stage s, as a function
ConfirmAlone(s, book_ids) ==
  IF s.pc = <<>> THEN s
  ELSE LET st == ConfirmLoop([db |-> s.db, pc |-> s.pc,
                              updated |-> <<>>, not_found |-> <<>>], book_ids, 1)
       IN  [db |-> st.db, pc |-> st.pc]

\* what a run served alone on s may leave, by what the cover lookups return
RunOutcomes(s, rows) ==
  {Ran(s, rows, urls) : urls \in CoverOutcomes(ProcessRows(StartRun(s.db, s.pc), rows, 1))}

\* Catalog and stage as a client can see them: keys, records, old and new
Plain(s) ==
  [db |-> s.db,
   pc |-> [i \in 1..Len(s.pc) |->
             [key |-> s.pc[i].key, old |-> s.pc[i].val.old, new |-> s.pc[i].val.new]]]

\* what the two sequential orders of a run and a confirm may leave
SequentialOutcomes(s, rows, book_ids) ==
  {Plain(x) : x \in RunOutcomes(ConfirmAlone(s, book_ids), rows)}
    \cup {Plain(ConfirmAlone(x, book_ids)) : x \in RunOutcomes(s, rows)}

\* a run has answered and exactly one request, of kind op, was served during it
ServedDuring(op) ==
  /\ run = Idle
  /\ Accepted(resp)
  /\ Len(resp.during) = 1
  /\ resp.during[1].op = op

\* C23: writers are serialized: when a confirm is served while a reconcile
\* run is in progress, the Catalog and the stage left behind are those of
\* the run followed by the confirm or of the confirm followed by the run.
C23_WritersSerialized ==
  ServedDuring("confirm")
    => Plain([db |-> books_db, pc |-> pending_conflicts])
         \in SequentialOutcomes([db |-> resp.db0, pc |-> resp.pc0], resp.rows,
                                resp.during[1].book_ids)

\* C24: a recommend served while a reconcile run is in progress filters and
\* ranks the Catalog as it stood before the run or as the run leaves it,
\* never a partly applied batch.
C24_RecommendSeesWholeCatalog ==
  ServedDuring("recommend") => resp.during[1].saw \in {resp.db0, books_db}

====
